---- MODULE Spec2Model ----
(***************************************************************************)
(* A model of PortfolioUpdater (src/portfolio_updater.py): the loader, the *)
(* merger add_dates, the metadata recalculator update_metadata, the writer *)
(* and the driver run, together with the pandas and openpyxl operations    *)
(* they call.                                                              *)
(*                                                                         *)
(* A DataFrame is a record                                                 *)
(*    [name: the index's name, index: the index values,                    *)
(*     columns: the column labels, data: the rows (one tuple per row)].    *)
(* A worksheet is a sparse function from <<row, column>> to a cell value,  *)
(* as openpyxl keeps it.  A metadata dict is a sequence of <<key, value>>  *)
(* pairs in insertion order, keys and values being cell values; a range    *)
(* string is held as its characters, so that it is built and parsed the    *)
(* way the code does it.                                                   *)
(***************************************************************************)
EXTENDS Integers, Sequences, FiniteSets, TLC

VARIABLES
    pc,               \* where the caller is
    portfolio,        \* add_dates' first argument, update_metadata's and write's Table
    additions,        \* add_dates' second argument
    merged,           \* what add_dates returned
    metadata,         \* update_metadata's primary metadata
    joined_metadata,  \* update_metadata's secondary metadata
    result,           \* what update_metadata returned
    again,            \* what update_metadata returned for its own result
    sheet,            \* the destination worksheet, as saved
    loaded,           \* what load returned or raised
    args,             \* the arguments of load or run
    written,          \* the Table and Metadata the last write was called with
    calls,            \* the calls that have returned, in order
    locals            \* run's data, meta, existing_data and existing_meta

vars == <<pc, portfolio, additions, merged, metadata, joined_metadata,
          result, again, sheet, loaded, args, written, calls, locals>>

(***************************************************************************)
(* Bounds of the model.                                                    *)
(***************************************************************************)
MaxRows == 1
MaxAdditions == 1
MaxDates == 2
MaxAdditionDates == 1
MaxDay == 3

(***************************************************************************)
(* Cell and label values.                                                  *)
(***************************************************************************)
\* A string the code only passes on is an atom (str); a string the code builds
\* or takes apart is held as its characters (text).
S(s) == [str |-> s]
T(chars) == [text |-> chars]
N(n) == [num |-> n]
DT(d) == [day |-> d, time |-> 0]
NaN == [nan |-> TRUE]
None == [none |-> TRUE]

IsDatetime(v) == DOMAIN v = {"day", "time"}

Range(f) == {f[i] : i \in DOMAIN f}

SeqMap(Op(_), s) == [i \in 1..Len(s) |-> Op(s[i])]

Indices(s, x) == {i \in 1..Len(s) : s[i] = x}

IndexOf(s, x) == CHOOSE i \in Indices(s, x) : \A j \in Indices(s, x) : i <= j

(***************************************************************************)
(* Strings as sequences of characters: str(), int(), str.split(":"),       *)
(* re.split('(\d+)', s)[0] and openpyxl's column letters.                  *)
(***************************************************************************)
Digits == <<"0", "1", "2", "3", "4", "5", "6", "7", "8", "9">>
Letters == <<"A", "B", "C", "D", "E", "F", "G", "H", "I", "J", "K", "L", "M",
             "N", "O", "P", "Q", "R", "S", "T", "U", "V", "W", "X", "Y", "Z">>

IsDigit(ch) == ch \in Range(Digits)
IsLetter(ch) == ch \in Range(Letters)

\* str(n) of a natural number.
RECURSIVE str(_)
str(n) == IF n < 10 THEN <<Digits[n + 1]>> ELSE Append(str(n \div 10), Digits[(n % 10) + 1])

\* int(s) of a string of decimal digits.
RECURSIVE int(_)
int(s) ==
    IF Len(s) = 0 THEN 0
    ELSE 10 * int(SubSeq(s, 1, Len(s) - 1)) + (IndexOf(Digits, s[Len(s)]) - 1)

\* openpyxl.utils.get_column_letter: 1 -> A, 26 -> Z, 27 -> AA.
RECURSIVE get_column_letter(_)
get_column_letter(col_idx) ==
    IF col_idx = 0 THEN <<>>
    ELSE LET remainder == IF col_idx % 26 = 0 THEN 26 ELSE col_idx % 26
             rest == IF col_idx % 26 = 0 THEN (col_idx \div 26) - 1 ELSE col_idx \div 26
         IN Append(get_column_letter(rest), Letters[remainder])

\* openpyxl.utils.column_index_from_string: A -> 1, Z -> 26, AA -> 27.
RECURSIVE column_index_from_string(_)
column_index_from_string(s) ==
    IF Len(s) = 0 THEN 0
    ELSE 26 * column_index_from_string(SubSeq(s, 1, Len(s) - 1))
         + IndexOf(Letters, s[Len(s)])

\* The part of s before its first digit: re.split('(\d+)', s)[0].
RECURSIVE before_digits(_)
before_digits(s) ==
    IF Len(s) = 0 \/ IsDigit(s[1]) THEN <<>> ELSE <<s[1]>> \o before_digits(Tail(s))

\* s.split(":"): the pieces of s between the colons.
RECURSIVE split(_)
split(s) ==
    IF ":" \notin Range(s) THEN <<s>>
    ELSE LET k == IndexOf(s, ":")
         IN <<SubSeq(s, 1, k - 1)>> \o split(SubSeq(s, k + 1, Len(s)))

(***************************************************************************)
(* Python dicts: <<key, value>> pairs in insertion order.  NoDict is the   *)
(* None a caller passes for a metadata it does not have.                   *)
(***************************************************************************)
NoDict == [present |-> FALSE, items |-> <<>>]
Dict(items) == [present |-> TRUE, items |-> items]

Keys(d) == [i \in 1..Len(d.items) |-> d.items[i][1]]
Has(d, k) == k \in Range(Keys(d))
Get(d, k) == d.items[IndexOf(Keys(d), k)][2]
\* d[k] = v: an existing key keeps its place, a new key goes last.
Set(d, k, v) ==
    IF Has(d, k)
    THEN [d EXCEPT !.items[IndexOf(Keys(d), k)] = <<k, v>>]
    ELSE [d EXCEPT !.items = Append(d.items, <<k, v>>)]
\* Python's truth value of None or of a dict.
Truthy(d) == d.present /\ d.items # <<>>

(***************************************************************************)
(* pandas.                                                                 *)
(***************************************************************************)
EmptyFrame == [name |-> None, index |-> <<>>, columns |-> <<>>, data |-> <<>>]

RangeIndex(n) == [i \in 1..n |-> N(i - 1)]

\* DataFrame.reset_index(): the index becomes the first column.
reset_index(df) ==
    [name |-> None,
     index |-> RangeIndex(Len(df.index)),
     columns |-> <<df.name>> \o df.columns,
     data |-> [i \in 1..Len(df.data) |-> <<df.index[i]>> \o df.data[i]]]

\* DataFrame.set_index(label): the column becomes the index and is dropped.
set_index(df, label) ==
    LET k == IndexOf(df.columns, label)
        Drop(row) == SubSeq(row, 1, k - 1) \o SubSeq(row, k + 1, Len(row))
    IN [name |-> label,
        index |-> [i \in 1..Len(df.data) |-> df.data[i][k]],
        columns |-> Drop(df.columns),
        data |-> [i \in 1..Len(df.data) |-> Drop(df.data[i])]]

\* DataFrame.merge(right, how='outer') with no `on`: the join keys are the
\* labels the two frames share.  The rows of the left frame come first, each
\* with its matches, then the unmatched rows of the right frame; a value
\* neither side supplies is NaN.
merge_outer(left, right) ==
    LET on == SelectSeq(left.columns, LAMBDA c : c \in Range(right.columns))
        extra == SelectSeq(right.columns, LAMBDA c : c \notin Range(left.columns))
        Val(df, row, c) == row[IndexOf(df.columns, c)]
        Match(l, r) == \A c \in Range(on) : Val(left, l, c) = Val(right, r, c)
        RightOf(r) == [k \in 1..Len(extra) |-> Val(right, r, extra[k])]
        Joined(l) ==
            LET ms == SelectSeq(right.data, LAMBDA r : Match(l, r))
            IN IF ms = <<>>
               THEN <<l \o [k \in 1..Len(extra) |-> NaN]>>
               ELSE [j \in 1..Len(ms) |-> l \o RightOf(ms[j])]
        RECURSIVE LeftRows(_)
        LeftRows(i) ==
            IF i = 0 THEN <<>> ELSE LeftRows(i - 1) \o Joined(left.data[i])
        unmatched == SelectSeq(right.data,
                        LAMBDA r : \A i \in 1..Len(left.data) : ~Match(left.data[i], r))
        RightOnly(r) ==
            [k \in 1..Len(left.columns) |->
                IF left.columns[k] \in Range(on)
                THEN Val(right, r, left.columns[k]) ELSE NaN] \o RightOf(r)
        rows == LeftRows(Len(left.data)) \o SeqMap(RightOnly, unmatched)
    IN [name |-> None,
        index |-> RangeIndex(Len(rows)),
        columns |-> left.columns \o extra,
        data |-> rows]

\* DataFrame.iloc[:, a:b] (columns a..b, counted from 1 here).
iloc_cols(df, a, b) ==
    [df EXCEPT !.columns = SubSeq(df.columns, a, b),
               !.data = [i \in 1..Len(df.data) |-> SubSeq(df.data[i], a, b)]]

\* The order sort_index puts labels in: datetimes by date and time, the
\* names read_excel gives to empty header cells (fewer than ten here) by
\* their text.  A datetime and a string do not compare.
Comparable(a, b) == DOMAIN a = DOMAIN b
LabelBefore(a, b) ==
    IF IsDatetime(a) THEN a.day < b.day \/ (a.day = b.day /\ a.time < b.time)
    ELSE a.unnamed < b.unnamed

\* sort_index left out: the columns stay in the order the merge produced.
sort_index_cols_unsorted(df) == df

\* DataFrame.sort_index(axis=1): the columns in ascending order of label;
\* the permutation that sorts the labels, applied to every row.
sort_index_cols(df) ==
    LET n == Len(df.columns)
        Rank(k) == Cardinality({j \in 1..n :
                        \/ LabelBefore(df.columns[j], df.columns[k])
                        \/ (~LabelBefore(df.columns[k], df.columns[j]) /\ j < k)}) + 1
        At(p) == CHOOSE k \in 1..n : Rank(k) = p
    IN [df EXCEPT !.columns = [p \in 1..n |-> df.columns[At(p)]],
                  !.data = [i \in 1..Len(df.data) |->
                                [p \in 1..n |-> df.data[i][At(p)]]]]

\* pd.concat([a, b], axis=1) of two frames with the same index.
concat_cols(a, b) ==
    [a EXCEPT !.columns = a.columns \o b.columns,
              !.data = [i \in 1..Len(a.data) |-> a.data[i] \o b.data[i]]]

(***************************************************************************)
(* PortfolioUpdater.add_dates.  The first input is re-indexed in place     *)
(* (line 115) before it is merged; the second is copied by reset_index().  *)
(***************************************************************************)
add_dates_portfolio(p) == reset_index(p)

\* The TypeError of line 120 when the labels to sort do not compare.
add_dates_raises(p, a) ==
    LET joined == set_index(merge_outer(add_dates_portfolio(p), reset_index(a)), S("ID"))
        labels == SubSeq(joined.columns, 3, Len(joined.columns))
    IN \E i, j \in 1..Len(labels) : ~Comparable(labels[i], labels[j])

add_dates(p, a) ==
    LET joined == set_index(merge_outer(add_dates_portfolio(p), reset_index(a)), S("ID"))
        dates_sorted == sort_index_cols(iloc_cols(joined, 3, Len(joined.columns)))
    IN concat_cols(iloc_cols(joined, 1, 2), dates_sorted)

(***************************************************************************)
(* The input Tables: Identifier as the index, Label, DBID, then the date   *)
(* columns in any order.  A record is one of three: a fund, the same fund  *)
(* under another DBID and with other weights, and another fund.            *)
(***************************************************************************)
Ids == {S("FOUSA1"), S("012345")}
Weights == {N(0), N(10)}
Records == {[fund |-> <<S("MStarFund"), S("MfX")>>, weight |-> N(10)],
            [fund |-> <<S("MStarFund"), S("eVa")>>, weight |-> N(0)],
            [fund |-> <<S("eVestFund"), S("eVa")>>, weight |-> N(0)]}
Days == 1..MaxDay

SeqsNoDup(X, n) ==
    UNION {{s \in [1..k -> X] : \A i, j \in 1..k : i # j => s[i] # s[j]} : k \in 0..n}

Frame(ids, days, fund, w) ==
    [name |-> S("ID"),
     index |-> ids,
     columns |-> <<S("Label"), S("DBID")>> \o [k \in 1..Len(days) |-> DT(days[k])],
     data |-> [i \in 1..Len(ids) |-> fund[i] \o w[i]]]

Tables(rows, dates) ==
    UNION {UNION {{Frame(ids, days,
                         [i \in 1..Len(ids) |-> rec[i].fund],
                         [i \in 1..Len(ids) |-> [k \in 1..Len(days) |-> rec[i].weight]]) :
                      rec \in [1..Len(ids) -> Records]} :
                  days \in SeqsNoDup(Days, dates)} :
           ids \in SeqsNoDup(Ids, rows)}

(***************************************************************************)
(* The merger on its own: two Tables, then one call of add_dates.          *)
(***************************************************************************)
Unused(v) == v = <<>>

InitMerge ==
    /\ pc = "start"
    /\ portfolio \in Tables(MaxRows, MaxDates)
    /\ additions \in Tables(MaxAdditions, MaxAdditionDates)
    /\ merged = EmptyFrame
    /\ Unused(metadata) /\ Unused(joined_metadata) /\ Unused(result)
    /\ Unused(again) /\ Unused(sheet) /\ Unused(loaded) /\ Unused(args)
    /\ Unused(written) /\ Unused(calls) /\ Unused(locals)

AddDates ==
    /\ pc = "start"
    /\ merged' = add_dates(portfolio, additions)
    /\ portfolio' = add_dates_portfolio(portfolio)
    /\ pc' = "merged"
    /\ UNCHANGED <<additions, metadata, joined_metadata, result, again, sheet,
                   loaded, args, written, calls, locals>>

NextMerge == AddDates

SpecMerge == InitMerge /\ [][NextMerge]_vars

\* The identifiers, dates and values of a Table.
IdsOf(df) == Range(df.index)
DatesOf(df) == {c \in Range(df.columns) : IsDatetime(c)}
Count(s, x) == Cardinality(Indices(s, x))
ValuesAt(df, id, c) ==
    {df.data[i][IndexOf(df.columns, c)] : i \in Indices(df.index, id)}
IsStrictlyAscending(cols) ==
    \A i, j \in 1..Len(cols) : i < j => LabelBefore(cols[i], cols[j])

\* C1: for two Tables with unique identifiers, the Table add_dates returns
\* holds every identifier of either input exactly once and no other.
\* (The code joins on every shared column, so a fund whose Label, DBID or
\* shared-date weight differs between the inputs comes out twice.)
C1_EveryIdentifierOnce ==
    [][pc' = "merged" =>
        /\ IdsOf(merged') = IdsOf(portfolio) \cup IdsOf(additions)
        /\ \A id \in IdsOf(merged') : Count(merged'.index, id) = 1]_vars

\* C2: a date column of only one input is in the output, and the weight
\* under it is zero for every identifier that only the other input has.
\* (The code leaves the outer join's NaN in place.)
ZeroFilled(one, other, out) ==
    \A d \in DatesOf(one) \ DatesOf(other) :
        /\ d \in DatesOf(out)
        /\ \A id \in IdsOf(other) \ IdsOf(one) : ValuesAt(out, id, d) = {N(0)}

C2_AbsentWeightIsZero ==
    [][pc' = "merged" =>
        /\ ZeroFilled(portfolio, additions, merged')
        /\ ZeroFilled(additions, portfolio, merged')]_vars

\* C3: the Table add_dates returns has Label and DBID as its first two
\* columns and after them exactly the union of both inputs' date columns,
\* in strictly ascending order.
C3_DatesSortedAfterFixedColumns ==
    [][pc' = "merged" =>
        LET cols == merged'.columns
            dates == SubSeq(cols, 3, Len(cols))
        IN /\ Len(cols) >= 2
           /\ cols[1] = S("Label")
           /\ cols[2] = S("DBID")
           /\ Range(dates) = DatesOf(portfolio) \cup DatesOf(additions)
           /\ \A d \in Range(dates) : IsDatetime(d)
           /\ IsStrictlyAscending(dates)]_vars

\* C3's case: the merge has run and a date of the second input lies before
\* a date of the first, between two of them in particular.
C3_Witness ==
    /\ pc = "merged"
    /\ Len(merged.index) >= 2
    /\ \E d \in DatesOf(additions) \ DatesOf(portfolio) :
         \E e, f \in DatesOf(portfolio) :
            LabelBefore(e, d) /\ LabelBefore(d, f)
    /\ Len(merged.columns) = 5

\* C8: add_dates leaves both input Tables as they were.
\* (The code re-indexes its first argument in place.)
C8_InputsUnchanged ==
    [][pc' = "merged" => portfolio' = portfolio /\ additions' = additions]_vars
(***************************************************************************)
(* PortfolioUpdater.update_metadata.                                       *)
(***************************************************************************)
Monthly == <<"M", "o", "n", "t", "h", "l", "y">>
Advanced == <<"A", "d", "v", "a", "n", "c", "e", "d">>
Quarterly == <<"Q", "u", "a", "r", "t", "e", "r", "l", "y">>
Basic == <<"B", "a", "s", "i", "c">>

RangeKeys == {S("MPI_ASSETIDRANGE"), S("MPI_LABELRANGE"), S("MPI_ASSETDBIDRANGE"),
              S("MPI_PORTFOLIODATERANGE")}

\* len(portfolio) + 4: the data starts at row 5.
last_row(df) == Len(df.index) + 4

\* The ID column forgotten: the letter of the last-but-one column.
last_col_without_id(df) == get_column_letter(Len(df.columns))

\* The letter of the last column; column A holds the identifiers.
last_col(df) == get_column_letter(Len(df.columns) + 1)

\* A secondary metadata that overwrites what the primary has.
add_joined_overwriting(m, joined) ==
    LET RECURSIVE Add(_)
        Add(i) == IF i = 0 THEN m
                  ELSE Set(Add(i - 1), joined.items[i][1], joined.items[i][2])
    IN IF Truthy(joined) THEN Add(Len(joined.items)) ELSE m

\* Lines 206-209: the keys of the secondary metadata the primary lacks.
add_joined(m, joined) ==
    LET RECURSIVE Add(_)
        Add(i) ==
            IF i = 0 THEN m
            ELSE LET sofar == Add(i - 1)
                     key == joined.items[i][1]
                 IN IF Has(sofar, key) THEN sofar
                    ELSE Set(sofar, key, joined.items[i][2])
    IN IF Truthy(joined) THEN Add(Len(joined.items)) ELSE m

update_metadata(df, m, joined) ==
    LET m0 == IF Truthy(m) THEN m ELSE Dict(<<>>)
        m1 == IF Has(m0, S("MPI_Rebalance")) THEN m0
              ELSE Set(m0, S("MPI_Rebalance"), T(Monthly))
        m2 == Set(m1, S("MPI_PORTFOLIOTYPE"), T(Advanced))
        m3 == Set(m2, S("MPI_ASSETIDRANGE"), T(<<"A", "5", ":", "A">> \o str(last_row(df))))
        m4 == Set(m3, S("MPI_LABELRANGE"), T(<<"B", "5", ":", "B">> \o str(last_row(df))))
        m5 == Set(m4, S("MPI_ASSETDBIDRANGE"), T(<<"C", "5", ":", "C">> \o str(last_row(df))))
        m6 == Set(m5, S("MPI_PORTFOLIODATERANGE"),
                  T(<<"D", "4", ":">> \o last_col(df) \o <<"4">>))
    IN add_joined(m6, joined)

(***************************************************************************)
(* openpyxl worksheets.  A saved date is read back as a datetime at        *)
(* midnight.                                                               *)
(***************************************************************************)
Date(d) == [date |-> d]
BlankSheet == <<>>

SetMax(X) == IF X = {} THEN 0 ELSE CHOOSE x \in X : \A y \in X : y <= x
max_row(ws) == SetMax({rc[1] : rc \in DOMAIN ws})
max_column(ws) == SetMax({rc[2] : rc \in DOMAIN ws})
Cell(ws, r, c) == IF <<r, c>> \in DOMAIN ws THEN ws[<<r, c>>] ELSE None

\* xl.load_workbook(filename)[sheetname]
load_workbook(ws) ==
    [rc \in DOMAIN ws |-> IF DOMAIN ws[rc] = {"date"} THEN DT(ws[rc].date) ELSE ws[rc]]

\* Python's truth value of a cell value.
TruthyValue(v) == v # None /\ v # S("") /\ v # N(0)

\* datetime.date(): the time of day is dropped.
date(header) == Date(header.day)

\* The loop of lines 157-159 and 84-86: row 1 holds the keys, row 2 the
\* values; a column with a blank key is skipped.
sheet_metadata(ws) ==
    LET RECURSIVE Upto(_)
        Upto(c) ==
            IF c = 0 THEN Dict(<<>>)
            ELSE IF TruthyValue(Cell(ws, 1, c))
                 THEN Set(Upto(c - 1), Cell(ws, 1, c), Cell(ws, 2, c))
                 ELSE Upto(c - 1)
    IN Upto(max_column(ws))

\* Lines 162-167: the cell range of the portfolio, from the row range of
\* MPI_LABELRANGE and the column range of MPI_PORTFOLIODATERANGE.
cellrange(m) ==
    LET rowrange == split(Get(m, S("MPI_LABELRANGE")).text)
        colrange == split(Get(m, S("MPI_PORTFOLIODATERANGE")).text)
    IN << <<"A">> \o str(int(Tail(rowrange[1])) - 1),
          before_digits(colrange[2]) \o Tail(rowrange[2]) >>

\* The column and the row of a cell reference such as F14.
RefColumn(ref) == column_index_from_string(before_digits(ref))
RefRow(ref) == int(SubSeq(ref, Len(before_digits(ref)) + 1, Len(ref)))

\* get_portfolio: the rows of the cell range, the first three cells of the
\* first row renamed.
get_portfolio(ws, range) ==
    LET c1 == RefColumn(range[1])
        c2 == RefColumn(range[2])
        r1 == RefRow(range[1])
        r2 == RefRow(range[2])
        Row(r) == [k \in 1..(c2 - c1 + 1) |-> Cell(ws, r, c1 + k - 1)]
        header_row == <<S("ID"), S("Label"), S("DBID")>>
                         \o SubSeq(Row(r1), 4, c2 - c1 + 1)
    IN <<header_row>> \o [k \in 1..(r2 - r1) |-> Row(r1 + k)]

\* Lines 69-73: the first row names the columns and is dropped, the ID
\* column becomes the index.
frame_of_portfolio(rows) ==
    set_index([name |-> None,
               index |-> RangeIndex(Len(rows) - 1),
               columns |-> rows[1],
               data |-> Tail(rows)], S("ID"))

Unnamed(k) == [unnamed |-> k]

\* pd.read_excel(..., skiprows, index_col=0): the first row that is not
\* skipped names the columns, the first column is the index, an empty cell
\* is NaN and an empty header cell is named after its position.
read_excel(ws, skip) ==
    LET h == skip + 1
        n == max_column(ws)
        Label(c) == IF Cell(ws, h, c) = None THEN Unnamed(c - 1) ELSE Cell(ws, h, c)
        Value(r, c) == IF Cell(ws, r, c) = None THEN NaN ELSE Cell(ws, r, c)
        nrows == max_row(ws) - h
    IN IF max_row(ws) < h THEN EmptyFrame
       ELSE [name |-> IF Cell(ws, h, 1) = None THEN None ELSE Cell(ws, h, 1),
             index |-> [k \in 1..nrows |-> Value(h + k, 1)],
             columns |-> [k \in 1..(n - 1) |-> Label(k + 1)],
             data |-> [k \in 1..nrows |-> [j \in 1..(n - 1) |-> Value(h + k, j + 1)]]]

Raised(error) == [status |-> error, df |-> EmptyFrame, metadata |-> NoDict]
Returned(df, m) == [status |-> "ok", df |-> df, metadata |-> m]

\* get_metadata: the metadata and the cell range, or the KeyError of the
\* dict lookups of lines 162-163.
get_metadata_raises(ws) ==
    \/ ~Has(sheet_metadata(ws), S("MPI_LABELRANGE"))
    \/ ~Has(sheet_metadata(ws), S("MPI_PORTFOLIODATERANGE"))

\* The generic branch with its first case only: a FormatError otherwise.
load_generic_strict(ws) ==
    IF Cell(ws, 1, 1) = S("ID") THEN Returned(read_excel(ws, 0), NoDict)
    ELSE Raised("FormatError")

\* Lines 75-87: the sheet without metadata, or with metadata in rows 1-2.
load_generic(ws) ==
    IF Cell(ws, 1, 1) = S("ID") THEN Returned(read_excel(ws, 0), NoDict)
    ELSE Returned(read_excel(ws, 2), sheet_metadata(ws))

\* Lines 64-74.
load_stylus(ws) ==
    IF get_metadata_raises(ws) THEN Raised("KeyError")
    ELSE Returned(frame_of_portfolio(get_portfolio(ws, cellrange(sheet_metadata(ws)))),
                  sheet_metadata(ws))

load(file, stylus_formatted) ==
    IF stylus_formatted THEN load_stylus(load_workbook(file))
    ELSE load_generic(load_workbook(file))

\* write: the sheet is opened as it is, the metadata goes to rows 1 and 2,
\* the date headers to row 4, the records to the rows from 5 on, and the
\* book is saved; a cell that is not written keeps what it held.
write(df, m, file) ==
    LET output == load_workbook(file)
        keys == [rc \in {<<1, c>> : c \in 1..Len(m.items)} |-> m.items[rc[2]][1]]
        values == [rc \in {<<2, c>> : c \in 1..Len(m.items)} |-> m.items[rc[2]][2]]
        headers == [rc \in {<<4, c + 1>> : c \in {k \in 1..Len(df.columns) :
                                                    IsDatetime(df.columns[k])}} |->
                        date(df.columns[rc[2] - 1])]
        ids == [rc \in {<<r + 4, 1>> : r \in 1..Len(df.index)} |-> df.index[rc[1] - 4]]
        points == [rc \in {<<r + 4, c + 1>> : r \in 1..Len(df.index),
                                              c \in 1..Len(df.columns)} |->
                        df.data[rc[1] - 4][rc[2] - 1]]
    IN keys @@ values @@ headers @@ ids @@ points @@ output

(***************************************************************************)
(* The recalculator on its own: a Table of any shape, a primary and a      *)
(* secondary metadata, one call of update_metadata and a second call on    *)
(* the result of the first.                                                *)
(***************************************************************************)
MaxRecords == 10
MaxDateCols == 24
MaxKeys == 1

\* A Table of r records and nd date columns.
ShapeTable(r, nd) ==
    [name |-> S("ID"),
     index |-> [i \in 1..r |-> N(i)],
     columns |-> <<S("Label"), S("DBID")>> \o [k \in 1..nd |-> DT(k)],
     data |-> [i \in 1..r |-> <<S("MStarFund"), S("MfX")>> \o [k \in 1..nd |-> N(0)]]]

\* What a loaded metadata may hold: the defaults' keys with other values,
\* range keys of an earlier shape, and a pass-through key with two values.
MetaItems ==
    {<<S("MPI_Rebalance"), T(Quarterly)>>,
     <<S("MPI_PORTFOLIOTYPE"), T(Basic)>>,
     <<S("MPI_LABELRANGE"), T(<<"B", "5", ":", "B", "9">>)>>,
     <<S("MPI_PORTFOLIODATERANGE"), T(<<"D", "4", ":", "E", "4">>)>>,
     <<S("MPI_BENCHMARK"), T(<<"X">>)>>,
     <<S("MPI_BENCHMARK"), T(<<"Y">>)>>}

Metadatas ==
    {NoDict} \cup
    {Dict(items) : items \in
        {s \in SeqsNoDup(MetaItems, MaxKeys) :
            \A i, j \in 1..Len(s) : i # j => s[i][1] # s[j][1]}}

InitMeta ==
    /\ pc = "start"
    /\ \E r \in 0..MaxRecords, nd \in 0..MaxDateCols : portfolio = ShapeTable(r, nd)
    /\ metadata \in Metadatas
    /\ joined_metadata \in Metadatas
    /\ result = NoDict
    /\ again = NoDict
    /\ Unused(additions) /\ Unused(merged) /\ Unused(sheet) /\ Unused(loaded)
    /\ Unused(args) /\ Unused(written) /\ Unused(calls) /\ Unused(locals)

\* meta = update_metadata(portfolio, metadata, joined_metadata); a dict that
\* is passed in and is not empty is the very dict that is updated.
UpdateMetadata ==
    /\ pc = "start"
    /\ result' = update_metadata(portfolio, metadata, joined_metadata)
    /\ metadata' = IF Truthy(metadata) THEN result' ELSE metadata
    /\ pc' = "updated"
    /\ UNCHANGED <<portfolio, additions, merged, joined_metadata, again, sheet,
                   loaded, args, written, calls, locals>>

\* update_metadata applied to its own result, with or without the secondary.
UpdateMetadataAgain ==
    /\ pc = "updated"
    /\ \E joined \in {joined_metadata, NoDict} :
          again' = update_metadata(portfolio, result, joined)
    /\ pc' = "again"
    /\ UNCHANGED <<portfolio, additions, merged, metadata, joined_metadata,
                   result, sheet, loaded, args, written, calls, locals>>

NextMeta == UpdateMetadata \/ UpdateMetadataAgain

SpecMeta == InitMeta /\ [][NextMeta]_vars

\* What a range string says, read back independently of how it was built.
IsColumnRange(v, letter, first, last) ==
    /\ Len(v) >= 5
    /\ SubSeq(v, 1, 4) = <<letter, Digits[first + 1], ":", letter>>
    /\ \A i \in 5..Len(v) : IsDigit(v[i])
    /\ v[5] # "0"
    /\ int(SubSeq(v, 5, Len(v))) = last

IsHeaderRange(v, lastcol) ==
    /\ Len(v) >= 5
    /\ SubSeq(v, 1, 3) = <<"D", "4", ":">>
    /\ v[Len(v)] = "4"
    /\ \A i \in 4..(Len(v) - 1) : IsLetter(v[i])
    /\ column_index_from_string(SubSeq(v, 4, Len(v) - 1)) = lastcol

RangesMatch(m, df) ==
    /\ \A k \in RangeKeys : Has(m, k)
    /\ IsColumnRange(Get(m, S("MPI_ASSETIDRANGE")).text, "A", 5, Len(df.index) + 4)
    /\ IsColumnRange(Get(m, S("MPI_LABELRANGE")).text, "B", 5, Len(df.index) + 4)
    /\ IsColumnRange(Get(m, S("MPI_ASSETDBIDRANGE")).text, "C", 5, Len(df.index) + 4)
    /\ IsHeaderRange(Get(m, S("MPI_PORTFOLIODATERANGE")).text, Len(df.columns) + 1)

\* C5: for a Table of r records and c non-key columns and any metadata,
\* update_metadata returns the identifier, label and DBID ranges over rows
\* 5..r+4 of columns A, B, C and the date range D4:<L>4 with L the letter of
\* column c+1; for 10 records and 3 date columns A5:A14, B5:B14, C5:C14, D4:F4.
C5_RangesFromShape ==
    pc = "updated" =>
        /\ RangesMatch(result, portfolio)
        /\ (Len(portfolio.index) = 10 /\ Len(portfolio.columns) = 5 =>
               /\ Get(result, S("MPI_ASSETIDRANGE")).text = <<"A", "5", ":", "A", "1", "4">>
               /\ Get(result, S("MPI_LABELRANGE")).text = <<"B", "5", ":", "B", "1", "4">>
               /\ Get(result, S("MPI_ASSETDBIDRANGE")).text = <<"C", "5", ":", "C", "1", "4">>
               /\ Get(result, S("MPI_PORTFOLIODATERANGE")).text = <<"D", "4", ":", "F", "4">>)

\* C5's case: the metadata already held range keys of another shape, the
\* secondary metadata holds one too, and the last column is past Z.
C5_Witness ==
    /\ pc = "updated"
    /\ Len(portfolio.index) = 10
    /\ Len(portfolio.columns) + 1 > 26
    /\ Has(joined_metadata, S("MPI_LABELRANGE"))
    /\ Get(result, S("MPI_PORTFOLIODATERANGE")).text = <<"D", "4", ":", "A", "A", "4">>

\* C9: update_metadata applied to its own result with the same Table gives
\* that result again, key for key and value for value.
C9_Idempotent ==
    pc = "again" =>
        /\ Range(again.items) = Range(result.items)
        /\ Len(again.items) = Len(result.items)

\* C9's case: the second call has run on a result that took a key from the
\* secondary metadata, and another on a result whose secondary metadata
\* held a range key of another shape.
C9_Witness ==
    /\ pc = "again"
    /\ \/ Has(joined_metadata, S("MPI_BENCHMARK")) /\ Has(again, S("MPI_BENCHMARK"))
       \/ Has(joined_metadata, S("MPI_LABELRANGE"))
    /\ Len(again.items) >= 6
    /\ Len(portfolio.index) > 5
\* C6: every key other than the four range keys keeps the primary's value
\* when the primary has it, takes the secondary's value when only the
\* secondary has it, and the defaults 'Monthly' and 'Advanced' are seeded
\* only when the primary metadata is absent.
\* (The code sets MPI_PORTFOLIOTYPE to 'Advanced' whatever the primary holds
\* and seeds MPI_Rebalance whenever the primary lacks it.)
C6_PrimaryWinsDefaultsOnlyWhenAbsent ==
    [][pc' = "updated" =>
        /\ \A i \in 1..Len(metadata.items) :
              metadata.items[i][1] \notin RangeKeys =>
                 /\ Has(result', metadata.items[i][1])
                 /\ Get(result', metadata.items[i][1]) = metadata.items[i][2]
        /\ \A i \in 1..Len(joined_metadata.items) :
              (/\ joined_metadata.items[i][1] \notin RangeKeys
               /\ ~Has(metadata, joined_metadata.items[i][1])) =>
                 /\ Has(result', joined_metadata.items[i][1])
                 /\ Get(result', joined_metadata.items[i][1]) = joined_metadata.items[i][2]
        /\ metadata.present =>
              \A k \in {S("MPI_Rebalance"), S("MPI_PORTFOLIOTYPE")} :
                 Has(result', k) => Has(metadata, k) \/ Has(joined_metadata, k)]_vars
(***************************************************************************)
(* The writer and the loader on one destination sheet: the sheet exists    *)
(* and is blank, it is written up to MaxWrites times, each time with a     *)
(* Table and the Metadata update_metadata makes for it, and it is then     *)
(* loaded as a Stylus sheet.                                               *)
(***************************************************************************)
MaxWrites == 2
MaxSheetRows == 2
MaxSheetDay == 2

FundOf(id) == IF id = S("FOUSA1") THEN <<S("MStarFund"), S("MfX")>>
              ELSE <<S("eVestFund"), S("eVa")>>

SheetTables ==
    UNION {UNION {{Frame(ids, days, [i \in 1..Len(ids) |-> FundOf(ids[i])], w) :
                      w \in [1..Len(ids) -> [1..Len(days) -> Weights]]} :
                  days \in SeqsNoDup(1..MaxSheetDay, MaxSheetDay)} :
           ids \in SeqsNoDup(Ids, MaxSheetRows) \ {<<>>}}

SheetMetadatas ==
    {NoDict,
     Dict(<< <<S("MPI_BENCHMARK"), T(<<"X">>)>> >>),
     Dict(<< <<S("MPI_PORTFOLIODATERANGE"), T(<<"D", "4", ":", "E", "4">>)>> >>)}

InitSheet ==
    /\ pc = "open"
    /\ sheet = BlankSheet
    /\ written = <<>>
    /\ calls = <<>>
    /\ loaded = <<>>
    /\ Unused(portfolio) /\ Unused(additions) /\ Unused(merged) /\ Unused(metadata)
    /\ Unused(joined_metadata) /\ Unused(result) /\ Unused(again) /\ Unused(args)
    /\ Unused(locals)

Write ==
    /\ pc \in {"open", "written"}
    /\ Len(calls) < MaxWrites
    /\ \E df \in SheetTables, m \in SheetMetadatas :
          LET meta == update_metadata(df, m, NoDict)
          IN /\ sheet' = write(df, meta, sheet)
             /\ written' = [portfolio |-> df, metadata |-> meta]
    /\ calls' = Append(calls, "write")
    /\ pc' = "written"
    /\ UNCHANGED <<portfolio, additions, merged, metadata, joined_metadata,
                   result, again, loaded, args, locals>>

LoadWritten ==
    /\ pc = "written"
    /\ loaded' = load(sheet, TRUE)
    /\ calls' = Append(calls, "load")
    /\ pc' = "loaded"
    /\ UNCHANGED <<portfolio, additions, merged, metadata, joined_metadata,
                   result, again, sheet, args, written, locals>>

NextSheet == Write \/ LoadWritten

SpecSheet == InitSheet /\ [][NextSheet]_vars

SameTable(a, b) ==
    /\ a.index = b.index
    /\ DatesOf(a) = DatesOf(b)
    /\ Range(a.columns) = Range(b.columns)
    /\ \A id \in IdsOf(a) : \A c \in Range(a.columns) :
          ValuesAt(a, id, c) = ValuesAt(b, id, c)

\* C4: whatever the destination sheet held before, write followed by a
\* Stylus load of the sheet gives the Table back (same identifiers, same
\* field values, same dates) and a Metadata whose four range keys are the
\* ranges of that Table's shape.
\* (write clears nothing: a metadata column, header or row of an earlier,
\* wider write stays in the sheet and is loaded again.)
C4_RoundTrip ==
    pc = "loaded" =>
        /\ loaded.status = "ok"
        /\ SameTable(loaded.df, written.portfolio)
        /\ RangesMatch(loaded.metadata, written.portfolio)

(***************************************************************************)
(* The loader on its own: a source sheet in one of the layouts and the     *)
(* caller's word on whether it is a Stylus sheet.                          *)
(***************************************************************************)
\* The layout of load's docstring: the header in row 1, a record per row.
generic_sheet(df, idname, top) ==
    LET header == [rc \in {<<top, c>> : c \in 1..(Len(df.columns) + 1)} |->
                      IF rc[2] = 1 THEN idname
                      ELSE IF IsDatetime(df.columns[rc[2] - 1])
                           THEN date(df.columns[rc[2] - 1])
                           ELSE df.columns[rc[2] - 1]]
        body == [rc \in {<<top + r, c>> : r \in 1..Len(df.index),
                                          c \in 1..(Len(df.columns) + 1)} |->
                      IF rc[2] = 1 THEN df.index[rc[1] - top]
                      ELSE df.data[rc[1] - top][rc[2] - 1]]
    IN header @@ body

\* The same below two rows of metadata.
metadata_sheet(df, m) ==
    [rc \in {<<1, c>> : c \in 1..Len(m.items)} |-> m.items[rc[2]][1]]
    @@ [rc \in {<<2, c>> : c \in 1..Len(m.items)} |-> m.items[rc[2]][2]]
    @@ generic_sheet(df, S("ID"), 3)

SourceSheets ==
    {generic_sheet(df, idname, 1) : df \in SheetTables, idname \in {S("ID"), S("Identifier")}}
    \cup {metadata_sheet(df, update_metadata(df, m, NoDict)) :
             df \in SheetTables, m \in SheetMetadatas}
    \cup {metadata_sheet(df, Dict(<< <<S("MPI_Rebalance"), T(Quarterly)>> >>)) :
             df \in SheetTables}
    \cup {write(df, update_metadata(df, m, NoDict), BlankSheet) :
             df \in SheetTables, m \in SheetMetadatas}

InitLoad ==
    /\ pc = "start"
    /\ args \in [file : SourceSheets, stylus_formatted : BOOLEAN]
    /\ loaded = <<>>
    /\ Unused(portfolio) /\ Unused(additions) /\ Unused(merged) /\ Unused(metadata)
    /\ Unused(joined_metadata) /\ Unused(result) /\ Unused(again) /\ Unused(sheet)
    /\ Unused(written) /\ Unused(calls) /\ Unused(locals)

Load ==
    /\ pc = "start"
    /\ loaded' = load(args.file, args.stylus_formatted)
    /\ pc' = "loaded"
    /\ UNCHANGED <<portfolio, additions, merged, metadata, joined_metadata,
                   result, again, sheet, args, written, calls, locals>>

NextLoad == Load

SpecLoad == InitLoad /\ [][NextLoad]_vars

A1(ws) == Cell(ws, 1, 1)
Opened == load_workbook(args.file)

MaxRunRows == 1
MaxRunDay == 2

RunTables ==
    UNION {{Frame(ids, days, [i \in 1..Len(ids) |-> FundOf(ids[i])],
                  [i \in 1..Len(ids) |-> [k \in 1..Len(days) |-> N(10)]]) :
               days \in SeqsNoDup(1..MaxRunDay, MaxRunDay)} :
           ids \in SeqsNoDup(Ids, MaxRunRows) \ {<<>>}}

RunMetadatas ==
    {NoDict, Dict(<< <<S("MPI_BENCHMARK"), T(<<"X">>)>> >>)}

NoFile == [file |-> BlankSheet, stylus_formatted |-> FALSE, given |-> FALSE]
File(ws, stylus) == [file |-> ws, stylus_formatted |-> stylus, given |-> TRUE]

RunSources ==
    {File(generic_sheet(df, S("ID"), 1), stylus) : df \in RunTables, stylus \in BOOLEAN}
    \cup {File(metadata_sheet(df, update_metadata(ShapeTable(5, 2), m, NoDict)), FALSE) :
             df \in RunTables, m \in RunMetadatas}
    \cup {File(write(df, update_metadata(df, m, NoDict), BlankSheet), TRUE) :
             df \in RunTables, m \in RunMetadatas}

InitRun ==
    /\ pc = "load"
    /\ args \in [source : RunSources, existing : RunSources \cup {NoFile}]
    /\ locals = [data |-> EmptyFrame, meta |-> NoDict,
                 existing_data |-> EmptyFrame, existing_meta |-> NoDict]
    /\ sheet = BlankSheet
    /\ written = <<>>
    /\ calls = <<>>
    /\ loaded = <<>>
    /\ Unused(portfolio) /\ Unused(additions) /\ Unused(merged) /\ Unused(metadata)
    /\ Unused(joined_metadata) /\ Unused(result) /\ Unused(again)

\* Line 214.
RunLoad ==
    /\ pc = "load"
    /\ loaded' = load(args.source.file, args.source.stylus_formatted)
    /\ IF loaded'.status = "ok"
       THEN /\ locals' = [locals EXCEPT !.data = loaded'.df, !.meta = loaded'.metadata]
            /\ calls' = Append(calls, "load")
            /\ pc' = IF args.existing.given THEN "load_existing" ELSE "update"
       ELSE /\ pc' = "raised"
            /\ UNCHANGED <<locals, calls>>
    /\ UNCHANGED <<portfolio, additions, merged, metadata, joined_metadata,
                   result, again, sheet, args, written>>

\* Line 217.
RunLoadExisting ==
    /\ pc = "load_existing"
    /\ loaded' = load(args.existing.file, args.existing.stylus_formatted)
    /\ IF loaded'.status = "ok"
       THEN /\ locals' = [locals EXCEPT !.existing_data = loaded'.df,
                                        !.existing_meta = loaded'.metadata]
            /\ calls' = Append(calls, "load")
            /\ pc' = "merge"
       ELSE /\ pc' = "raised"
            /\ UNCHANGED <<locals, calls>>
    /\ UNCHANGED <<portfolio, additions, merged, metadata, joined_metadata,
                   result, again, sheet, args, written>>

\* Line 219.
RunAddDates ==
    /\ pc = "merge"
    /\ IF add_dates_raises(locals.existing_data, locals.data)
       THEN /\ locals' = [locals EXCEPT
                             !.existing_data = add_dates_portfolio(locals.existing_data)]
            /\ pc' = "raised"
            /\ UNCHANGED calls
       ELSE /\ locals' = [locals EXCEPT
                             !.data = add_dates(locals.existing_data, locals.data),
                             !.existing_data = add_dates_portfolio(locals.existing_data)]
            /\ calls' = Append(calls, "add_dates")
            /\ pc' = "update_merged"
    /\ UNCHANGED <<portfolio, additions, merged, metadata, joined_metadata,
                   result, again, sheet, loaded, args, written>>

\* Line 220; a metadata dict that is not empty is updated where it is.
RunUpdateMerged ==
    /\ pc = "update_merged"
    /\ LET meta == update_metadata(locals.data, locals.existing_meta, locals.meta)
       IN locals' = [locals EXCEPT
                        !.meta = meta,
                        !.existing_meta = IF Truthy(locals.existing_meta) THEN meta ELSE @]
    /\ calls' = Append(calls, "update_metadata")
    /\ pc' = "write"
    /\ UNCHANGED <<portfolio, additions, merged, metadata, joined_metadata,
                   result, again, sheet, loaded, args, written>>

\* Line 223.
RunUpdate ==
    /\ pc = "update"
    /\ locals' = [locals EXCEPT !.meta = update_metadata(locals.data, locals.meta, NoDict)]
    /\ calls' = Append(calls, "update_metadata")
    /\ pc' = "write"
    /\ UNCHANGED <<portfolio, additions, merged, metadata, joined_metadata,
                   result, again, sheet, loaded, args, written>>

\* Line 224.
RunWrite ==
    /\ pc = "write"
    /\ sheet' = write(locals.data, locals.meta, sheet)
    /\ written' = [portfolio |-> locals.data, metadata |-> locals.meta]
    /\ calls' = Append(calls, "write")
    /\ pc' = "done"
    /\ UNCHANGED <<portfolio, additions, merged, metadata, joined_metadata,
                   result, again, loaded, args, locals>>

NextRun ==
    \/ RunLoad
    \/ RunLoadExisting
    \/ RunAddDates
    \/ RunUpdateMerged
    \/ RunUpdate
    \/ RunWrite

SpecRun == InitRun /\ [][NextRun]_vars

\* C10: write is called only after every load, the merge and the metadata
\* recompute have returned, and the Metadata it is given has the four range
\* keys of the shape of the Table it is given, whatever range keys the
\* loaded metadata carried.
C10_WriteLastWithRecomputedRanges ==
    /\ "write" \in Range(calls) =>
          /\ pc = "done"
          /\ calls = IF args.existing.given
                     THEN <<"load", "load", "add_dates", "update_metadata", "write">>
                     ELSE <<"load", "update_metadata", "write">>
          /\ RangesMatch(written.metadata, written.portfolio)
    /\ sheet # BlankSheet => "write" \in Range(calls)

\* C10's case: both sources carried range keys, the merged Table has another
\* shape than either, and write has been called.
C10_Witness ==
    /\ pc = "done"
    /\ args.existing.given
    /\ \A f \in {args.source, args.existing} :
          /\ Has(sheet_metadata(f.file), S("MPI_LABELRANGE"))
          /\ Cell(f.file, 2, IndexOf(Keys(sheet_metadata(f.file)), S("MPI_LABELRANGE")))
                # Get(written.metadata, S("MPI_LABELRANGE"))
    /\ Len(written.portfolio.index) = 2
====
